---- MODULE Spec2Model ----
(***************************************************************************)
(* Model of the idle/override arbitration of OVOSGuiControlSkill and its   *)
(* RestingScreen collaborator (src/__init__.py).                           *)
(*                                                                         *)
(* Time is counted in ticks of half a second (the resolution of the        *)
(* time.sleep(0.5) in start_idle_event); time.monotonic() and the wall     *)
(* clock of the event scheduler are the one clock `now`.                   *)
(* Every bus handler runs to completion as one action; the operations on   *)
(* the resting screen and the idle timer are also given statement by       *)
(* statement, for the interleavings of concurrent threads.                 *)
(* The brightness handlers use the same clock, stepped in hours.           *)
(***************************************************************************)
EXTENDS Integers, Sequences, FiniteSets, TLC

VARIABLES
    now,                \* time.monotonic(), in ticks
    screens,            \* RestingScreen.screens : name -> id
    selected,           \* gui["selected"]
    override_idle,      \* RestingScreen.override_idle : None or <<message, set time>>
    override_set_time,  \* RestingScreen.override_set_time
    next,               \* RestingScreen.next
    events,             \* pending scheduled events of the skill: <<[name, when]>>
    has_show_page,      \* OVOSGuiControlSkill.has_show_page
    override_animations,\* OVOSGuiControlSkill.override_animations
    viseme,             \* gui["viseme"]
    gui_state,          \* gui["state"]
    device_paired,      \* OVOSGuiControlSkill.device_paired
    device_backend,     \* OVOSGuiControlSkill.device_backend
    auto_brightness,    \* OVOSGuiControlSkill.auto_brightness
    applied,            \* levels passed to set_screen_brightness by the handler that ran last
    spoken,             \* dialogs spoken by the handler that ran last
    pc,                 \* where each handler thread is in a RestingScreen / timer operation
    lock,               \* RestingScreen.lock : None or the thread holding it
    emitted,            \* bus messages emitted by the handler that ran last
    last                \* the handler that ran last, with its input

vars == <<now, screens, selected, override_idle, override_set_time, next,
          events, has_show_page, override_animations, viseme, gui_state,
          device_paired, device_backend, auto_brightness,
          applied, spoken, pc, lock, emitted, last>>

\* What decides whether the speaking face is shown, and the face shown
face == <<gui_state, device_paired, device_backend>>

---------------------------------------------------------------------------
(* Bounds and inputs *)

MaxTime == 15

PageHorizon == 4

TicksPerSecond == 2

Sec(s) == s * TicksPerSecond

ScreenNames == {"OVOSHomescreen", "Weather"}

ScreenIds == {"homescreen-skill", "weather-skill"}

ControllerSkills == {"skill-ovos-mycroftgui"}

OtherSkills == {"skill-weather", "skill-timer"}

Pages == {<<"weather/idle.qml">>, <<"weather/forecast.qml">>}

IdleInts == {0, 5, 15, 60}

Offsets == {5, 60}

---------------------------------------------------------------------------
(* Python values *)

None == <<>>

NoneStr == "<None>"

Absent == <<"absent", 0>>

PyTrue == <<"bool", 1>>

PyFalse == <<"bool", 0>>

PyInt(n) == <<"int", n>>

IdleDirectives == {Absent, PyTrue, PyFalse} \cup {PyInt(n) : n \in IdleInts}

Message(msg_type, data) == [msg_type |-> msg_type, data |-> data]

NoData == [none |-> TRUE]

NoneMsg == Message("<None>", NoData)

IsInstanceInt(v) == v[1] \in {"int", "bool"}

EmptyViseme == [start |-> 0, visemes |-> <<>>]

PageShowData ==
    [from : ControllerSkills \cup OtherSkills, idle : IdleDirectives,
     page : Pages, animations : BOOLEAN]

PageShowMessages == {Message("gui.page.show", d) : d \in PageShowData}

\* Page-show events that ask to keep the page instead of the idle screen
OverridingMessages ==
    {m \in PageShowMessages :
        /\ m.data.idle = PyTrue
        /\ m.data.from \in OtherSkills
        /\ ~m.data.animations
        /\ m.data.page = <<"weather/forecast.qml">>}

\* Page-show events that set the idle timeout of the page
TimedMessages ==
    {m \in PageShowMessages :
        /\ m.data.idle = PyInt(5)
        /\ m.data.from = "skill-weather"
        /\ ~m.data.animations
        /\ m.data.page = <<"weather/forecast.qml">>}


\* The handler threads of the message bus client
Threads == {"t1", "t2"}

\* A thread that is in none of the operations
Idle == [op |-> "idle", line |-> 0, arg |-> NoData]

\* A handler that runs as one step and takes no part in the locking
Atomic == UNCHANGED <<pc, lock>>

\* A handler that neither sets the brightness nor speaks
NoBrightness ==
    /\ applied' = <<>>
    /\ spoken' = <<>>
    /\ UNCHANGED auto_brightness

Truthy(s) == s \notin {NoneStr, ""}

EndsWithIdleQml(p) == p \in {"weather/idle.qml", "idle.qml"}

\* Mutant: no event counts as the controller's own
IsControllerOrigin_never(from) == FALSE

IsControllerOrigin(from) == from \in ControllerSkills

\* Mutant: every two messages count as of the same origin
compare_origin_any(msg1, msg2) == TRUE

compare_origin(msg1, msg2) == msg1.data.from = msg2.data.from

---------------------------------------------------------------------------
(* Event scheduler of the skill framework *)

Event(name, when) == [name |-> name, when |-> when]

IsNamed(name, e) == e.name = name

cancel_scheduled_event(evs, name) ==
    SelectSeq(evs, LAMBDA e : ~IsNamed(name, e))

schedule_event(evs, name, when) == Append(evs, Event(name, when))

Pending(name) == SelectSeq(events, LAMBDA e : IsNamed(name, e))

IntSeconds(offset) == (offset \div TicksPerSecond) * TicksPerSecond

---------------------------------------------------------------------------
(* RestingScreen *)

Format_idle(screen) == screen \o ".idle"

Get(scr, name) == IF name \in DOMAIN scr THEN scr[name] ELSE NoneStr

\* Mutant: the selected idle screen wins over an active override
show_idle_first(ov, scr, sel) ==
    LET screen == IF Cardinality(DOMAIN scr) > 0 THEN Get(scr, sel)
                  ELSE NoneStr
    IN  IF Truthy(screen) THEN <<Message(Format_idle(screen), NoData)>>
        ELSE IF ov # None THEN <<ov[1]>> ELSE <<>>

\* Mutant: the idle screen shown is some registered one, selected or not
show_any_registered(ov, scr, sel) ==
    IF ov # None
    THEN <<ov[1]>>
    ELSE IF Cardinality(DOMAIN scr) > 0
         THEN <<Message(Format_idle(scr[CHOOSE n \in DOMAIN scr : TRUE]),
                        NoData)>>
         ELSE <<>>

show(ov, scr, sel) ==
    IF ov # None
    THEN <<ov[1]>>
    ELSE LET screen == IF Cardinality(DOMAIN scr) > 0 THEN Get(scr, sel)
                       ELSE NoneStr
         IN  IF Truthy(screen) THEN <<Message(Format_idle(screen), NoData)>>
             ELSE <<>>

\* The state after RestingScreen.__init__ and OVOSGuiControlSkill.__init__,
\* constructed when the monotonic clock reads t0.
InitAt(t0) ==
    /\ now = t0
    /\ screens = [n \in {} |-> ""]
    /\ selected = "OVOSHomescreen"
    /\ override_idle = None
    /\ override_set_time = t0
    /\ next = 0
    /\ events = <<>>
    /\ has_show_page = FALSE
    /\ override_animations = FALSE
    /\ viseme = EmptyViseme
    /\ gui_state = NoneStr
    /\ device_paired = FALSE
    /\ device_backend = "unknown"
    /\ auto_brightness = None
    /\ applied = <<>>
    /\ spoken = <<>>
    /\ pc = [t \in Threads |-> Idle]
    /\ lock = None
    /\ emitted = <<>>
    /\ last = [op |-> "init"]

Init == InitAt(0)

RegisterData ==
    [name : ScreenNames, id : ScreenIds] \cup [name : ScreenNames]
        \cup [id : ScreenIds]

\* Mutant: the first registration of a name wins
on_register_first_wins(data) ==
    /\ screens' = IF /\ "name" \in DOMAIN data /\ "id" \in DOMAIN data
                     /\ data.name \notin DOMAIN screens
                  THEN [n \in DOMAIN screens \cup {data.name} |->
                           IF n = data.name THEN data.id ELSE screens[n]]
                  ELSE screens
    /\ emitted' = <<>>
    /\ last' = [op |-> "on_register", arg |-> data]
    /\ NoBrightness /\ Atomic
    /\ UNCHANGED <<now, selected, override_idle, override_set_time, next,
                   events, has_show_page, override_animations, viseme, face>>

on_register(data) ==
    /\ screens' = IF "name" \in DOMAIN data /\ "id" \in DOMAIN data
                  THEN [n \in DOMAIN screens \cup {data.name} |->
                           IF n = data.name THEN data.id ELSE screens[n]]
                  ELSE screens
    /\ emitted' = <<>>
    /\ last' = [op |-> "on_register", arg |-> data]
    /\ NoBrightness /\ Atomic
    /\ UNCHANGED <<now, selected, override_idle, override_set_time, next,
                   events, has_show_page, override_animations, viseme, face>>

set(name) ==
    /\ selected' = name
    /\ emitted' = <<>>
    /\ last' = [op |-> "set", arg |-> name]
    /\ NoBrightness /\ Atomic
    /\ UNCHANGED <<now, screens, override_idle, override_set_time, next,
                   events, has_show_page, override_animations, viseme, face>>

\* Mutant: showing the resting screen releases the override
device_show_idle_releasing ==
    /\ emitted' = show(override_idle, screens, selected)
    /\ override_idle' = None
    /\ last' = [op |-> "show"]
    /\ NoBrightness /\ Atomic
    /\ UNCHANGED <<now, screens, selected, override_set_time,
                   next, events, has_show_page, override_animations, viseme, face>>

device_show_idle ==
    /\ emitted' = show(override_idle, screens, selected)
    /\ last' = [op |-> "show"]
    /\ NoBrightness /\ Atomic
    /\ UNCHANGED <<now, screens, selected, override_idle, override_set_time,
                   next, events, has_show_page, override_animations, viseme, face>>

CollectSleep == Sec(1)

collect ==
    /\ now + CollectSleep <= MaxTime
    /\ now' = now + CollectSleep
    /\ emitted' = <<Message("mycroft.mark2.collect_idle", NoData)>>
                     \o show(override_idle, screens, selected)
    /\ last' = [op |-> "collect"]
    /\ NoBrightness /\ Atomic
    /\ UNCHANGED <<screens, selected, override_idle, override_set_time,
                   next, events, has_show_page, override_animations, viseme, face>>

RestoreGrace == 2

\* Mutant: restore releases the override whatever its age
RestoreDue_no_grace(ov, t) == ov # None

RestoreDue(ov, t) == ov # None /\ t - ov[2] > Sec(RestoreGrace)

\* RestingScreen.restore: new override_idle and the messages emitted
restore_override(ov, t) == IF RestoreDue(ov, t) THEN None ELSE ov

restore_emits(ov, t, scr, sel) ==
    IF RestoreDue(ov, t) THEN show(None, scr, sel) ELSE <<>>

restore ==
    /\ override_idle' = restore_override(override_idle, now)
    /\ emitted' = restore_emits(override_idle, now, screens, selected)
    /\ last' = [op |-> "restore"]
    /\ NoBrightness /\ Atomic
    /\ UNCHANGED <<now, screens, selected, override_set_time, next, events,
                   has_show_page, override_animations, viseme, face>>

StopGrace == 7

\* Mutant: stop uses the grace period of restore
StopDue_restore_grace(t, set_time) == t > set_time + Sec(RestoreGrace)

StopDue(t, set_time) == t > set_time + Sec(StopGrace)

\* OVOSGuiControlSkill.stop -> RestingScreen.stop -> restore
stop ==
    /\ override_idle' = IF StopDue(now, override_set_time)
                        THEN restore_override(override_idle, now)
                        ELSE override_idle
    /\ emitted' = IF StopDue(now, override_set_time)
                  THEN restore_emits(override_idle, now, screens, selected)
                  ELSE <<>>
    /\ viseme' = EmptyViseme
    /\ UNCHANGED face
    /\ last' = [op |-> "stop"]
    /\ NoBrightness /\ Atomic
    /\ UNCHANGED <<now, screens, selected, override_set_time, next, events,
                   has_show_page, override_animations>>

\* Mutant: force_stop releases the override only after its grace period
force_stop_after_grace ==
    /\ override_idle' = restore_override(override_idle, now)
    /\ emitted' = show(override_idle', screens, selected)
    /\ last' = [op |-> "force_stop"]
    /\ NoBrightness /\ Atomic
    /\ UNCHANGED <<now, screens, selected, override_set_time, next, events,
                   has_show_page, override_animations, viseme, face>>

force_stop ==
    /\ override_idle' = None
    /\ emitted' = show(None, screens, selected)
    /\ last' = [op |-> "force_stop"]
    /\ NoBrightness /\ Atomic
    /\ UNCHANGED <<now, screens, selected, override_set_time, next, events,
                   has_show_page, override_animations, viseme, face>>

\* Mutant: override installs whatever it is given
override_unguarded(ov, message, t) == <<message, t>>

\* RestingScreen.override: the new override_idle (override_set_time := now)
override(ov, message, t) == IF message # NoneMsg THEN <<message, t>> ELSE ov

cancel_override == None

---------------------------------------------------------------------------
(* Idle timer *)

SleepTicks == 1

\* Mutant: the debounce rule never drops a request
NeverDebounced(t, offset, nxt) == FALSE

Debounced(t, offset, nxt) == t + offset < nxt

\* Mutant: the floor is not reset
cancel_idle_event_keeps_floor ==
    /\ next' = next
    /\ events' = cancel_scheduled_event(events, "IdleCheck")

\* cancel_idle_event: changes next and events
cancel_idle_event ==
    /\ next' = 0
    /\ events' = cancel_scheduled_event(events, "IdleCheck")

\* Mutant: the existing checker is not cleared before the new one is armed
start_idle_event_nocancel(offset, weak) ==
    IF Debounced(now, offset, next)
    THEN UNCHANGED <<next, events, now>>
    ELSE /\ now + SleepTicks <= MaxTime
         /\ next' = IF ~weak THEN now + offset ELSE next
         /\ now' = now + SleepTicks
         /\ events' = schedule_event(events, "IdleCheck",
                                    now' + IntSeconds(offset))

\* Mutant: a weak request raises the floor as well
start_idle_event_weak_floor(offset, weak) ==
    IF Debounced(now, offset, next)
    THEN UNCHANGED <<next, events, now>>
    ELSE /\ now + SleepTicks <= MaxTime
         /\ next' = now + offset
         /\ now' = now + SleepTicks
         /\ events' = schedule_event(
                          cancel_scheduled_event(events, "IdleCheck"),
                          "IdleCheck", now' + IntSeconds(offset))

\* start_idle_event: changes next, events and (by its sleep) now
start_idle_event(offset, weak) ==
    IF Debounced(now, offset, next)
    THEN UNCHANGED <<next, events, now>>
    ELSE /\ now + SleepTicks <= MaxTime
         /\ next' = IF ~weak THEN now + offset ELSE next
         /\ now' = now + SleepTicks
         /\ events' = schedule_event(
                          cancel_scheduled_event(events, "IdleCheck"),
                          "IdleCheck", now' + IntSeconds(offset))

call_cancel_idle_event ==
    /\ cancel_idle_event
    /\ emitted' = <<>>
    /\ last' = [op |-> "cancel_idle_event"]
    /\ NoBrightness /\ Atomic
    /\ UNCHANGED <<now, screens, selected, override_idle, override_set_time,
                   has_show_page, override_animations, viseme, face>>

call_start_idle_event(offset, weak) ==
    /\ start_idle_event(Sec(offset), weak)
    /\ emitted' = <<>>
    /\ last' = [op |-> "start_idle_event",
                arg |-> [offset |-> Sec(offset), weak |-> weak]]
    /\ NoBrightness /\ Atomic
    /\ UNCHANGED <<screens, selected, override_idle, override_set_time,
                   has_show_page, override_animations, viseme, face>>

\* Mutant: the scheduler leaves the event that fired in place
IdleCheck_keeps_timer ==
    \E i \in 1..Len(events) :
        /\ events[i].name = "IdleCheck"
        /\ events[i].when <= now
        /\ events' = events
        /\ emitted' = show(override_idle, screens, selected)
        /\ last' = [op |-> "IdleCheck"]
        /\ NoBrightness /\ Atomic
        /\ UNCHANGED <<now, screens, selected, override_idle,
                       override_set_time, next, has_show_page,
                       override_animations, viseme, face>>

IdleCheck ==
    \E i \in 1..Len(events) :
        /\ events[i].name = "IdleCheck"
        /\ events[i].when <= now
        /\ events' = SubSeq(events, 1, i - 1) \o SubSeq(events, i + 1, Len(events))
        /\ emitted' = show(override_idle, screens, selected)
        /\ last' = [op |-> "IdleCheck"]
        /\ NoBrightness /\ Atomic
        /\ UNCHANGED <<now, screens, selected, override_idle,
                       override_set_time, next, has_show_page,
                       override_animations, viseme, face>>

---------------------------------------------------------------------------
(* Activity events *)

InteractionOffset == 30

on_gui_page_interaction ==
    /\ start_idle_event(Sec(InteractionOffset), FALSE)
    /\ emitted' = <<>>
    /\ last' = [op |-> "on_gui_page_interaction"]
    /\ NoBrightness /\ Atomic
    /\ UNCHANGED <<screens, selected, override_idle, override_set_time,
                   has_show_page, override_animations, viseme, face>>

DefaultPageOffset == 30

\* Mutant: the integer idle directive is ignored for the default timeout
IdleTimeout_default(directive) == Sec(DefaultPageOffset)

\* The offset an integer idle directive passes to start_idle_event
IdleTimeout(directive) == Sec(directive[2])

\* message.data["page"] raises KeyError: a page-show event without a "page"
\* field that reaches the third test of the idle directive
PageShowRaises(d) ==
    /\ ~IsControllerOrigin(d.from)
    /\ d.idle # PyTrue
    /\ ~(IsInstanceInt(d.idle) /\ d.idle # PyFalse)
    /\ d.page = Absent

on_gui_page_show(message) ==
    LET d == message.data
        override_idle_directive == d.idle
    IN
    /\ emitted' = <<>>
    /\ last' = IF PageShowRaises(d)
               THEN [op |-> "on_gui_page_show", arg |-> message,
                     raised |-> "KeyError"]
               ELSE [op |-> "on_gui_page_show", arg |-> message]
    /\ NoBrightness /\ Atomic
    /\ UNCHANGED <<screens, selected, viseme, face>>
    /\ IF ~IsControllerOrigin(d.from)
       THEN /\ has_show_page' = TRUE
            /\ override_animations' = d.animations
            /\ IF override_idle_directive = PyTrue
               THEN /\ cancel_idle_event
                    /\ override_set_time' = now
                    /\ override_idle' = override(override_idle, message, now)
                    /\ UNCHANGED now
               ELSE IF IsInstanceInt(override_idle_directive)
                       /\ override_idle_directive # PyFalse
               THEN /\ override_set_time' = now
                    /\ override_idle' = override(override_idle, NoneMsg, now)
                    /\ start_idle_event(IdleTimeout(override_idle_directive), FALSE)
               ELSE IF d.page = Absent
               THEN UNCHANGED <<override_idle, override_set_time, next,
                                events, now>>
               ELSE IF d.page # <<>> /\ ~EndsWithIdleQml(d.page[1])
               THEN /\ override_idle' =
                          IF /\ override_idle # None
                             /\ override_idle_directive = PyFalse
                             /\ compare_origin(message, override_idle[1])
                          THEN cancel_override
                          ELSE override_idle
                    /\ UNCHANGED override_set_time
                    /\ start_idle_event(Sec(DefaultPageOffset), FALSE)
               ELSE UNCHANGED <<override_idle, override_set_time, next,
                                events, now>>
       ELSE UNCHANGED <<has_show_page, override_animations, override_idle,
                        override_set_time, next, events, now>>

\* Handlers named by mycroft.skill.handler.start events: one of this skill,
\* the background clock, and one of another skill
Handlers ==
    {"OVOSGuiControlSkill.handle_brightness", "TimeSkill.update_display",
     "WeatherSkill.handle_current_weather"}

\* The handlers on_handler_started ignores
IsIgnoredHandler(handler) ==
    handler \in {"OVOSGuiControlSkill.handle_brightness",
                 "TimeSkill.update_display"}

\* on_handler_started: returns for the ignored handlers and for the others
on_handler_started(handler) ==
    /\ emitted' = <<>>
    /\ last' = [op |-> "on_handler_started", arg |-> handler]
    /\ NoBrightness /\ Atomic
    /\ UNCHANGED <<now, screens, selected, override_idle, override_set_time,
                   next, events, has_show_page, override_animations, viseme, face>>

SkillIds == OtherSkills \cup {""}

handle_remove_namespace(skill_id) ==
    /\ emitted' = IF skill_id # ""
                  THEN <<Message("gui.clear.namespace", [from |-> skill_id])>>
                  ELSE <<>>
    /\ override_idle' = cancel_override
    /\ events' = cancel_scheduled_event(events, "IdleCheck")
    /\ last' = [op |-> "handle_remove_namespace", arg |-> skill_id]
    /\ NoBrightness /\ Atomic
    /\ UNCHANGED <<now, screens, selected, override_set_time, next,
                   has_show_page, override_animations, viseme, face>>

---------------------------------------------------------------------------
(* The face: pairing, sleep and speech *)

Backends == {"unknown", "local", "selene"}

\* set_backend_type: the backend named by ovos.pairing.set.backend
set_backend_type(backend) ==
    /\ device_backend' = IF backend # "unknown" THEN backend
                         ELSE device_backend
    /\ emitted' = <<>>
    /\ last' = [op |-> "set_backend_type", arg |-> backend]
    /\ NoBrightness /\ Atomic
    /\ UNCHANGED <<now, screens, selected, override_idle, override_set_time,
                   next, events, has_show_page, override_animations, viseme,
                   gui_state, device_paired>>

\* start_homescreen_process: paired is what is_paired() answers
start_homescreen_process(paired) ==
    /\ device_paired' = paired
    /\ now + CollectSleep <= MaxTime
    /\ now' = now + CollectSleep
    /\ emitted' = <<Message("mycroft.mark2.collect_idle", NoData)>>
                     \o show(override_idle, screens, selected)
    /\ last' = [op |-> "start_homescreen_process", arg |-> paired]
    /\ NoBrightness /\ Atomic
    /\ UNCHANGED <<screens, selected, override_idle, override_set_time,
                   next, events, has_show_page, override_animations, viseme,
                   gui_state, device_backend>>

\* gui.show_page("all.qml"): the page-show event of the controller itself
ShowAllQml ==
    <<Message("gui.page.show",
              [from |-> "skill-ovos-mycroftgui", page |-> <<"all.qml">>])>>

\* on_handler_sleep (arg "resting") and on_handler_awoken (arg "awake")
on_handler_face(state) ==
    /\ gui_state' = state
    /\ emitted' = ShowAllQml
    /\ last' = [op |-> IF state = "resting" THEN "on_handler_sleep"
                       ELSE "on_handler_awoken"]
    /\ NoBrightness /\ Atomic
    /\ UNCHANGED <<now, screens, selected, override_idle, override_set_time,
                   next, events, has_show_page, override_animations, viseme,
                   device_paired, device_backend>>

\* Viseme lists: <<code, end time in ticks>>
VisemeLists ==
    {<<>>, <<<<"4", 1>>>>, <<<<"4", 1>>, <<"2", 3>>>>}

VisemeData == [start : {0}, visemes : VisemeLists]

VisemeMessages == {Message("enclosure.mouth.viseme_list", d) : d \in VisemeData}

\* The face is shown on a paired device and with the local backend
FaceEnabled == device_paired \/ device_backend = "local"

VisemeGrace == 5

\* message.data["visemes"][-1][1] + 5
viseme_time(data) == data.visemes[Len(data.visemes)][2] + Sec(VisemeGrace)

\* message.data["visemes"][-1] raises IndexError: a speaking event with an
\* empty list that reaches line 462
SpeakingRaises(data) ==
    FaceEnabled /\ ~has_show_page /\ data.visemes = <<>>

\* Mutant: the speaking face does not depend on the pairing
on_handler_speaking_ungated(message) ==
    LET data == message.data IN
    /\ last' = IF SpeakingRaises(data)
               THEN [op |-> "on_handler_speaking", arg |-> message,
                     raised |-> "IndexError"]
               ELSE [op |-> "on_handler_speaking", arg |-> message]
    /\ NoBrightness /\ Atomic
    /\ UNCHANGED <<screens, selected, override_idle, override_set_time,
                   has_show_page, override_animations, device_paired,
                   device_backend>>
    /\ viseme' = data
    /\ IF ~has_show_page
       THEN /\ gui_state' = "speaking"
            /\ emitted' = ShowAllQml
            /\ IF data.visemes = <<>>
               THEN UNCHANGED <<next, events, now>>
               ELSE start_idle_event(viseme_time(data), FALSE)
       ELSE /\ emitted' = <<>>
            /\ UNCHANGED <<gui_state, next, events, now>>

on_handler_speaking(message) ==
    LET data == message.data IN
    /\ last' = IF SpeakingRaises(data)
               THEN [op |-> "on_handler_speaking", arg |-> message,
                     raised |-> "IndexError"]
               ELSE [op |-> "on_handler_speaking", arg |-> message]
    /\ NoBrightness /\ Atomic
    /\ UNCHANGED <<screens, selected, override_idle, override_set_time,
                   has_show_page, override_animations, device_paired,
                   device_backend>>
    /\ IF FaceEnabled
       THEN /\ viseme' = data
            /\ IF ~has_show_page
               THEN /\ gui_state' = "speaking"
                    /\ emitted' = ShowAllQml
                    /\ IF data.visemes = <<>>
                       THEN UNCHANGED <<next, events, now>>
                       ELSE start_idle_event(viseme_time(data), FALSE)
               ELSE /\ emitted' = <<>>
                    /\ UNCHANGED <<gui_state, next, events, now>>
       ELSE /\ emitted' = <<>>
            /\ UNCHANGED <<viseme, gui_state, next, events, now>>

---------------------------------------------------------------------------
(* Screen brightness *)

MaxDays == 1

\* The steps in which the hours pass
ElapseHours == {3}

MaxEvents == 6

Hours(h) == Sec(3600 * h)

\* int(): truncation of the quotient a / b towards zero (b > 0)
Trunc(a, b) == IF a >= 0 THEN a \div b ELSE -((-a) \div b)

\* arrow's .timestamp: whole seconds
Timestamp(t) == t \div TicksPerSecond

Abs(x) == IF x >= 0 THEN x ELSE -x

FullLevel == 30

FullPercent == 100

\* Mutant: the level is rounded up
percent_to_level_ceil(percent) ==
    Trunc(percent * FullLevel + FullPercent - 1, FullPercent)

\* int(float(percent) / float(100) * 30)
percent_to_level(percent) == Trunc(percent * FullLevel, FullPercent)

\* set_screen_brightness: int(float(level) * float(100) / float(30))
level_to_percent(level) == Trunc(level * FullPercent, FullLevel)

\* What the user can ask for: a level by name (the locale's table
\* brightness.levels gives its value), a number followed by "%" or by
\* "percent", a bare integer, or anything else.
BrightnessNumbers == (0 - 2)..102 \cup {150}

NamedValues == {0 - 1, 0, 50, 100}

Utterance(kind, n) == [kind |-> kind, n |-> n]

Utterances ==
    {Utterance("name", v) : v \in NamedValues}
        \cup {Utterance(k, n) : k \in {"%", "percent", "int"},
                                n \in BrightnessNumbers}
        \cup {Utterance("other", 0)}

\* One request of each kind and outcome
Requests ==
    {Utterance("name", 0 - 1), Utterance("name", 50), Utterance("%", 150),
     Utterance("percent", 99), Utterance("int", 7), Utterance("int", 30),
     Utterance("int", 101), Utterance("other", 0)}

\* parse_brightness: None or the percentage
parse_brightness(brightness) ==
    IF brightness.kind = "name" THEN PyInt(brightness.n)
    ELSE IF brightness.kind \in {"%", "percent"} THEN PyInt(brightness.n)
    ELSE IF brightness.kind = "int"
    THEN LET i == brightness.n
         IN  IF i < 0 \/ i > 100 THEN None
             ELSE IF i < 30 THEN PyInt(Trunc(i * 100, 30))
             ELSE PyInt(i)
    ELSE None

Dialog(name) == [dialog |-> name]

DialogVal(name, val) == [dialog |-> name, val |-> val]

\* set_screen_brightness(level, speak): the levels applied and dialogs spoken
set_screen_brightness(level, speak) ==
    /\ applied' = <<level>>
    /\ spoken' = IF speak
                 THEN <<DialogVal("brightness.set", level_to_percent(level))>>
                 ELSE <<>>

\* _get_auto_time: the sun's times of the day of t, with their levels
Labels == <<"Sunrise", "Noon", "Sunset">>

SunHour(time_of_day) ==
    CASE time_of_day = "Sunrise" -> 6
      [] time_of_day = "Noon" -> 12
      [] time_of_day = "Sunset" -> 18

AutoLevel(time_of_day) ==
    CASE time_of_day = "Sunrise" -> 20
      [] time_of_day = "Noon" -> 30
      [] time_of_day = "Sunset" -> 5

StartOfDay(t) == (t \div Hours(24)) * Hours(24)

get_auto_time(t, time_of_day) ==
    <<StartOfDay(t) + Hours(SunHour(time_of_day)), AutoLevel(time_of_day)>>

BrightnessEvent(name, when, data) ==
    [name |-> name, when |-> when, data |-> data]

ShiftHours == 24

\* Mutant: a time of day that has passed is scheduled as it is
schedule_brightness_unshifted(evs, time_of_day, pair, t) ==
    Append(evs, BrightnessEvent(time_of_day, pair[1], <<time_of_day, pair[2]>>))

\* schedule_brightness: the events after it ran at time t
schedule_brightness(evs, time_of_day, pair, t) ==
    LET d_time == pair[1]
        data == <<time_of_day, pair[2]>>
    IN  IF Timestamp(t) > Timestamp(d_time)
        THEN Append(evs, BrightnessEvent(time_of_day,
                                         d_time + Hours(ShiftHours), data))
        ELSE Append(evs, BrightnessEvent(time_of_day, d_time, data))

\* The loop of handle_auto_brightness over the first k times of day:
\* <<events, <<distance, level, time of day>> of the nearest so far>>
RECURSIVE auto_loop(_, _, _)
auto_loop(evs, t, k) ==
    IF k = 0 THEN <<evs, <<>>>>
    ELSE LET before == auto_loop(evs, t, k - 1)
             time_of_day == Labels[k]
             pair == get_auto_time(t, time_of_day)
             distance == Abs(Timestamp(t) - Timestamp(pair[1]))
         IN  <<schedule_brightness(before[1], time_of_day, pair, t),
               IF before[2] = <<>> \/ distance < before[2][1]
               THEN <<distance, pair[2], time_of_day>>
               ELSE before[2]>>

auto_brightness_on ==
    /\ Len(events) + Len(Labels) <= MaxEvents
    /\ auto_brightness' = PyTrue
    /\ LET done == auto_loop(events, now, Len(Labels))
       IN  /\ events' = done[1]
           /\ set_screen_brightness(done[2][2], FALSE)

\* The intent "brightness.auto.intent"
handle_auto_brightness ==
    /\ auto_brightness_on
    /\ emitted' = <<>>
    /\ last' = [op |-> "handle_auto_brightness"]
    /\ Atomic
    /\ UNCHANGED <<now, screens, selected, override_idle, override_set_time,
                   next, has_show_page, override_animations, viseme, face>>

\* handle_brightness -> _set_brightness
set_brightness(brightness) ==
    LET percent == parse_brightness(brightness)
    IN  /\ IF percent = None
           THEN /\ spoken' = <<Dialog("brightness.not.found.final")>>
                /\ applied' = <<>>
                /\ UNCHANGED <<auto_brightness, events>>
           ELSE IF percent[2] = 0 - 1
           THEN auto_brightness_on
           ELSE /\ auto_brightness' = PyFalse
                /\ set_screen_brightness(percent_to_level(percent[2]), TRUE)
                /\ UNCHANGED events
        /\ emitted' = <<>>
        /\ last' = [op |-> "_set_brightness", arg |-> brightness]
        /\ Atomic
        /\ UNCHANGED <<now, screens, selected, override_idle,
                       override_set_time, next, has_show_page,
                       override_animations, viseme, face>>

IsLabel(name) == \E k \in 1..Len(Labels) : Labels[k] = name

\* Mutant: a firing re-arms its time of day whether auto brightness is on or not
handle_screen_brightness_event_rearming ==
    \E i \in 1..Len(events) :
        /\ IsLabel(events[i].name)
        /\ events[i].when <= now
        /\ LET time_of_day == events[i].data[1]
               level == events[i].data[2]
               rest == SubSeq(events, 1, i - 1)
                          \o SubSeq(events, i + 1, Len(events))
           IN  /\ events' = schedule_brightness(
                                cancel_scheduled_event(rest, time_of_day),
                                time_of_day,
                                get_auto_time(now, time_of_day), now)
               /\ IF auto_brightness = PyTrue
                  THEN set_screen_brightness(level, FALSE)
                  ELSE applied' = <<>> /\ spoken' = <<>>
               /\ last' = [op |-> "_handle_screen_brightness_event",
                           arg |-> time_of_day]
        /\ emitted' = <<>>
        /\ Atomic
        /\ UNCHANGED <<now, screens, selected, override_idle,
                       override_set_time, next, has_show_page,
                       override_animations, viseme, face, auto_brightness>>

\* _handle_screen_brightness_event, called by the scheduler for an elapsed
\* event of a time of day
handle_screen_brightness_event ==
    \E i \in 1..Len(events) :
        /\ IsLabel(events[i].name)
        /\ events[i].when <= now
        /\ LET time_of_day == events[i].data[1]
               level == events[i].data[2]
               rest == SubSeq(events, 1, i - 1)
                          \o SubSeq(events, i + 1, Len(events))
           IN  /\ IF auto_brightness = PyTrue
                  THEN /\ events' = schedule_brightness(
                                        cancel_scheduled_event(rest, time_of_day),
                                        time_of_day,
                                        get_auto_time(now, time_of_day), now)
                       /\ set_screen_brightness(level, FALSE)
                  ELSE /\ events' = rest
                       /\ applied' = <<>>
                       /\ spoken' = <<>>
               /\ last' = [op |-> "_handle_screen_brightness_event",
                           arg |-> time_of_day]
        /\ emitted' = <<>>
        /\ Atomic
        /\ UNCHANGED <<now, screens, selected, override_idle,
                       override_set_time, next, has_show_page,
                       override_animations, viseme, face, auto_brightness>>

\* Hours pass
Elapse ==
    /\ \E h \in ElapseHours :
           /\ now + Hours(h) <= Hours(24 * MaxDays)
           /\ now' = now + Hours(h)
    /\ emitted' = <<>>
    /\ last' = [op |-> "Elapse"]
    /\ NoBrightness /\ Atomic
    /\ UNCHANGED <<screens, selected, override_idle, override_set_time, next,
                   events, has_show_page, override_animations, viseme, face>>

---------------------------------------------------------------------------
(* The operations on the resting screen and the idle timer, statement by    *)
(* statement, as they run on the threads of concurrent handlers and timer   *)
(* callbacks. pc[t].line is the source line thread t executes next.         *)

ConcHorizon == 3

\* Offsets of the requests of the threads: 0 (a page with __idle = 0) and
\* the default
ThreadOffsets == {0, 60}

At(t, op, line) == pc[t].op = op /\ pc[t].line = line

Goto(t, line) == pc' = [pc EXCEPT ![t].line = line]

Return(t) == pc' = [pc EXCEPT ![t] = Idle]

\* Thread t calls operation op with argument arg; line is its first statement
Call(t, op, line, arg) ==
    /\ pc[t].op = "idle"
    /\ pc' = [pc EXCEPT ![t] = [op |-> op, line |-> line, arg |-> arg]]

\* What a statement of an operation leaves alone, and what it emits
Statement(out) ==
    /\ emitted' = out
    /\ last' = [op |-> "statement"]
    /\ NoBrightness
    /\ UNCHANGED <<screens, selected, has_show_page, override_animations,
                   viseme, face>>

\* A handler calls start_idle_event
enter_start_idle_event(t, offset, weak) ==
    /\ Call(t, "start_idle_event", 479,
            [offset |-> Sec(offset), weak |-> weak])
    /\ Statement(<<>>)
    /\ UNCHANGED <<now, next, events, override_idle, override_set_time, lock>>

\* with self.resting_screen.lock:
start_idle_event_479(t) ==
    /\ At(t, "start_idle_event", 479)
    /\ lock = None
    /\ lock' = <<t>>
    /\ Goto(t, 480)
    /\ Statement(<<>>)
    /\ UNCHANGED <<now, next, events, override_idle, override_set_time>>

\* if time.monotonic() + offset < self.resting_screen.next: return
start_idle_event_480(t) ==
    /\ At(t, "start_idle_event", 480)
    /\ IF Debounced(now, pc[t].arg.offset, next)
       THEN Return(t) /\ lock' = None
       ELSE Goto(t, 486) /\ UNCHANGED lock
    /\ Statement(<<>>)
    /\ UNCHANGED <<now, next, events, override_idle, override_set_time>>

\* if not weak: self.resting_screen.next = time.monotonic() + offset
start_idle_event_486(t) ==
    /\ At(t, "start_idle_event", 486)
    /\ next' = IF ~pc[t].arg.weak THEN now + pc[t].arg.offset ELSE next
    /\ Goto(t, 489)
    /\ Statement(<<>>)
    /\ UNCHANGED <<now, events, override_idle, override_set_time, lock>>

\* self.cancel_scheduled_event("IdleCheck")
start_idle_event_489(t) ==
    /\ At(t, "start_idle_event", 489)
    /\ events' = cancel_scheduled_event(events, "IdleCheck")
    /\ Goto(t, 490)
    /\ Statement(<<>>)
    /\ UNCHANGED <<now, next, override_idle, override_set_time, lock>>

\* time.sleep(0.5)
start_idle_event_490(t) ==
    /\ At(t, "start_idle_event", 490)
    /\ now + SleepTicks <= MaxTime
    /\ now' = now + SleepTicks
    /\ Goto(t, 491)
    /\ Statement(<<>>)
    /\ UNCHANGED <<next, events, override_idle, override_set_time, lock>>

\* self.schedule_event(self.resting_screen.show, int(offset), name="IdleCheck")
\* and the end of the with block
start_idle_event_491(t) ==
    /\ At(t, "start_idle_event", 491)
    /\ events' = schedule_event(events, "IdleCheck",
                                now + IntSeconds(pc[t].arg.offset))
    /\ lock' = None
    /\ Return(t)
    /\ Statement(<<>>)
    /\ UNCHANGED <<now, next, override_idle, override_set_time>>

\* A handler calls cancel_idle_event
enter_cancel_idle_event(t) ==
    /\ Call(t, "cancel_idle_event", 469, NoData)
    /\ Statement(<<>>)
    /\ UNCHANGED <<now, next, events, override_idle, override_set_time, lock>>

\* self.resting_screen.next = 0
cancel_idle_event_469(t) ==
    /\ At(t, "cancel_idle_event", 469)
    /\ next' = 0
    /\ Goto(t, 470)
    /\ Statement(<<>>)
    /\ UNCHANGED <<now, events, override_idle, override_set_time, lock>>

\* self.cancel_scheduled_event("IdleCheck")
cancel_idle_event_470(t) ==
    /\ At(t, "cancel_idle_event", 470)
    /\ events' = cancel_scheduled_event(events, "IdleCheck")
    /\ Return(t)
    /\ Statement(<<>>)
    /\ UNCHANGED <<now, next, override_idle, override_set_time, lock>>

\* The handler of mycroft.device.show.idle calls show
enter_show(t) ==
    /\ Call(t, "show", 111, NoData)
    /\ Statement(<<>>)
    /\ UNCHANGED <<now, next, events, override_idle, override_set_time, lock>>

\* The scheduler calls show for an elapsed "IdleCheck" event
fire_show(t) ==
    /\ \E i \in 1..Len(events) :
           /\ events[i].name = "IdleCheck"
           /\ events[i].when <= now
           /\ events' = SubSeq(events, 1, i - 1)
                           \o SubSeq(events, i + 1, Len(events))
    /\ Call(t, "show", 111, NoData)
    /\ Statement(<<>>)
    /\ UNCHANGED <<now, next, override_idle, override_set_time, lock>>

\* The body of show
show_111(t) ==
    /\ At(t, "show", 111)
    /\ Return(t)
    /\ Statement(show(override_idle, screens, selected))
    /\ UNCHANGED <<now, next, events, override_idle, override_set_time, lock>>

\* A handler calls override
enter_override(t, message) ==
    /\ Call(t, "override", 146, message)
    /\ Statement(<<>>)
    /\ UNCHANGED <<now, next, events, override_idle, override_set_time, lock>>

\* self.override_set_time = time.monotonic()
override_146(t) ==
    /\ At(t, "override", 146)
    /\ override_set_time' = now
    /\ Goto(t, 147)
    /\ Statement(<<>>)
    /\ UNCHANGED <<now, next, events, override_idle, lock>>

\* if message: self.override_idle = (message, time.monotonic())
override_147(t) ==
    /\ At(t, "override", 147)
    /\ override_idle' = override(override_idle, pc[t].arg, now)
    /\ Return(t)
    /\ Statement(<<>>)
    /\ UNCHANGED <<now, next, events, override_set_time, lock>>

\* A handler calls restore
enter_restore(t) ==
    /\ Call(t, "restore", 126, NoData)
    /\ Statement(<<>>)
    /\ UNCHANGED <<now, next, events, override_idle, override_set_time, lock>>

\* if self.override_idle and ...: self.override_idle = None; self.show()
restore_126(t) ==
    /\ At(t, "restore", 126)
    /\ override_idle' = restore_override(override_idle, now)
    /\ IF RestoreDue(override_idle, now)
       THEN pc' = [pc EXCEPT ![t] = [op |-> "show", line |-> 111,
                                     arg |-> NoData]]
       ELSE Return(t)
    /\ Statement(<<>>)
    /\ UNCHANGED <<now, next, events, override_set_time, lock>>

\* Time passes for the threads
Pass ==
    /\ now < MaxTime
    /\ now' = now + 1
    /\ emitted' = <<>>
    /\ last' = [op |-> "Pass"]
    /\ NoBrightness
    /\ UNCHANGED <<screens, selected, override_idle, override_set_time, next,
                   events, has_show_page, override_animations, viseme, face,
                   pc, lock>>

---------------------------------------------------------------------------

Tick ==
    /\ now < MaxTime
    /\ now' = now + 1
    /\ emitted' = <<>>
    /\ last' = [op |-> "Tick"]
    /\ NoBrightness /\ Atomic
    /\ UNCHANGED <<screens, selected, override_idle, override_set_time, next,
                   events, has_show_page, override_animations, viseme, face>>

Next ==
    \/ \E data \in RegisterData : on_register(data)
    \/ \E name \in ScreenNames : set(name)
    \/ device_show_idle
    \/ collect
    \/ restore
    \/ stop
    \/ force_stop
    \/ call_cancel_idle_event
    \/ \E offset \in Offsets, weak \in BOOLEAN :
           call_start_idle_event(offset, weak)
    \/ IdleCheck
    \/ on_gui_page_interaction
    \/ \E message \in PageShowMessages : on_gui_page_show(message)
    \/ \E skill_id \in SkillIds : handle_remove_namespace(skill_id)
    \/ \E handler \in Handlers : on_handler_started(handler)
    \/ \E brightness \in Utterances : set_brightness(brightness)
    \/ handle_auto_brightness
    \/ handle_screen_brightness_event
    \/ \E message \in VisemeMessages : on_handler_speaking(message)
    \/ \E backend \in Backends : set_backend_type(backend)
    \/ \E paired \in BOOLEAN : start_homescreen_process(paired)
    \/ \E state \in {"resting", "awake"} : on_handler_face(state)
    \/ Tick
    \/ Elapse

\* The whole skill: every handler with every input. Its state space is the
\* product of those of the sub-systems below, which are what is explored.
Spec == Init /\ [][Next]_vars

---------------------------------------------------------------------------
(* Sub-systems: the same handlers, each with the events one group of        *)
(* properties is about.                                                     *)

\* The idle timer: direct calls of start_idle_event / cancel_idle_event and
\* the handlers that only touch the timer.
NextTimer ==
    \/ call_cancel_idle_event
    \/ \E offset \in Offsets, weak \in BOOLEAN :
           call_start_idle_event(offset, weak)
    \/ IdleCheck
    \/ on_gui_page_interaction
    \/ \E skill_id \in SkillIds : handle_remove_namespace(skill_id)
    \/ Tick

SpecTimer == Init /\ [][NextTimer]_vars

\* The idle timer with a clock that keeps running and a scheduler that
\* keeps looking for elapsed events.
SpecTimerFair == SpecTimer /\ WF_vars(Tick) /\ WF_vars(IdleCheck)

\* The resting screen: registration, selection, override and its release.
NextScreen ==
    \/ \E data \in RegisterData : on_register(data)
    \/ \E name \in ScreenNames : set(name)
    \/ device_show_idle
    \/ collect
    \/ restore
    \/ stop
    \/ force_stop
    \/ \E message \in OverridingMessages \cup TimedMessages :
           on_gui_page_show(message)
    \/ IdleCheck
    \/ Tick

SpecScreen == Init /\ [][NextScreen]_vars

\* Page-show events with every origin, idle directive, page and animation
\* flag, in every timer and override state, over the last PageHorizon ticks
\* of the time horizon.
NextPage ==
    \/ \E message \in PageShowMessages : on_gui_page_show(message)
    \/ IdleCheck
    \/ Tick

SpecPage == InitAt(MaxTime - PageHorizon) /\ [][NextPage]_vars

\* The screen brightness: every request of the user, the auto brightness
\* intent and the firing of the scheduled times of day, over MaxDays days.
NextBrightness ==
    \/ \E brightness \in Requests : set_brightness(brightness)
    \/ handle_auto_brightness
    \/ handle_screen_brightness_event
    \/ Elapse

SpecBrightness == Init /\ [][NextBrightness]_vars

\* The conversions between requests, percentages and levels: every request
\* of the user in every mode of the auto brightness.
NextLevels ==
    \/ \E brightness \in Utterances : set_brightness(brightness)
    \/ handle_auto_brightness

SpecLevels == Init /\ [][NextLevels]_vars

\* The operations above on two threads, over the last ConcHorizon ticks of
\* the time horizon.
ThreadSteps(t) ==
    \/ \E offset \in ThreadOffsets, weak \in BOOLEAN :
           enter_start_idle_event(t, offset, weak)
    \/ start_idle_event_479(t)
    \/ start_idle_event_480(t)
    \/ start_idle_event_486(t)
    \/ start_idle_event_489(t)
    \/ start_idle_event_490(t)
    \/ start_idle_event_491(t)
    \/ enter_cancel_idle_event(t)
    \/ cancel_idle_event_469(t)
    \/ cancel_idle_event_470(t)
    \/ enter_show(t)
    \/ fire_show(t)
    \/ show_111(t)
    \/ \E message \in OverridingMessages \cup {NoneMsg} :
           enter_override(t, message)
    \/ override_146(t)
    \/ override_147(t)
    \/ enter_restore(t)
    \/ restore_126(t)

NextThreads == (\E t \in Threads : ThreadSteps(t)) \/ Pass

SpecThreads == InitAt(MaxTime - ConcHorizon) /\ [][NextThreads]_vars

\* A cancel_idle_event racing with a non-weak start_idle_event: the
\* statements of the two operations on the threads.
RaceSteps(t) ==
    \/ \E offset \in ThreadOffsets : enter_start_idle_event(t, offset, FALSE)
    \/ start_idle_event_479(t)
    \/ start_idle_event_480(t)
    \/ start_idle_event_486(t)
    \/ start_idle_event_489(t)
    \/ start_idle_event_490(t)
    \/ start_idle_event_491(t)
    \/ enter_cancel_idle_event(t)
    \/ cancel_idle_event_469(t)
    \/ cancel_idle_event_470(t)

NextRace == (\E t \in Threads : RaceSteps(t)) \/ Pass

SpecRace == InitAt(MaxTime - ConcHorizon) /\ [][NextRace]_vars

\* Page-show events of a skill without a "page" field
PagelessMessages ==
    {Message("gui.page.show",
             [from |-> "skill-weather", idle |-> i, page |-> Absent,
              animations |-> FALSE]) : i \in {Absent, PyFalse, PyTrue}}

\* Speech: speaking events on a device that is paired or not, between the
\* pages of skills and page interactions.
NextSpeaking ==
    \/ \E message \in VisemeMessages : on_handler_speaking(message)
    \/ \E backend \in Backends : set_backend_type(backend)
    \/ \E paired \in BOOLEAN : start_homescreen_process(paired)
    \/ \E state \in {"resting", "awake"} : on_handler_face(state)
    \/ \E message \in TimedMessages \cup PagelessMessages :
           on_gui_page_show(message)
    \/ on_gui_page_interaction
    \/ Tick

SpecSpeaking == InitAt(MaxTime - PageHorizon) /\ [][NextSpeaking]_vars

\* Activations: the start of skill handlers between the page-show events of
\* skills and the firing of the idle timer.
NextActivation ==
    \/ \E handler \in Handlers : on_handler_started(handler)
    \/ \E message \in OverridingMessages \cup TimedMessages :
           on_gui_page_show(message)
    \/ IdleCheck
    \/ Tick

SpecActivation == Init /\ [][NextActivation]_vars

---------------------------------------------------------------------------
(* Properties of the idle timer (SpecTimer) *)

IdleTimers == Pending("IdleCheck")

\* C1: after any sequence of start_idle_event and cancel_idle_event calls
\* (any offsets, weak or not) at most one "IdleCheck" timer is pending.
C1_AtMostOneIdleCheck == Len(IdleTimers) <= 1

\* A weak request accepted on top of an earlier request's floor: the earlier
\* timer was replaced, not added to.
C1_Witness ==
    /\ last.op = "start_idle_event"
    /\ last.arg.weak
    /\ next > now
    /\ Len(IdleTimers) = 1
    /\ IdleTimers[1].when = now + IntSeconds(last.arg.offset)

\* C2: a start_idle_event(offset) call made while now + offset < next is
\* abandoned entirely: timer, deadline and floor are unchanged; and after an
\* accepted start_idle_event(60) a following start_idle_event(5) leaves the
\* deadline at the first call's arming time + 60 s.
C2_DebounceAbandons ==
    [][ /\ (last'.op = "start_idle_event" /\ now + last'.arg.offset < next)
           => (events' = events /\ next' = next /\ now' = now)
        /\ ( /\ last.op = "start_idle_event"
             /\ last.arg.offset = Sec(60)
             /\ ~last.arg.weak
             /\ IdleTimers = <<Event("IdleCheck", now + Sec(60))>>
             /\ last'.op = "start_idle_event"
             /\ last'.arg.offset = Sec(5) )
           => events' = <<Event("IdleCheck", now + Sec(60))>> ]_vars

\* start_idle_event(5) has just been dropped: the timer armed by the earlier
\* start_idle_event(60) is still the one pending.
C2_Witness ==
    /\ last.op = "start_idle_event"
    /\ last.arg.offset = Sec(5)
    /\ ~last.arg.weak
    /\ now + Sec(5) < next
    /\ next = (now - SleepTicks) + Sec(60)
    /\ IdleTimers = <<Event("IdleCheck", now + Sec(60))>>

---------------------------------------------------------------------------
(* Properties of the resting screen (SpecScreen) *)

IdleActivation(id) == Message(id \o ".idle", NoData)

\* The idle-activation of the selected registered screen, if there is one
SelectedIdle(scr, sel) ==
    IF sel \in DOMAIN scr THEN <<IdleActivation(scr[sel])>> ELSE <<>>

IsIdleActivation(m) == \E id \in ScreenIds : m = IdleActivation(id)

ShowOps == {"show", "IdleCheck"}

\* C3: whenever an override is active, every invocation of show() emits
\* exactly the override's original message and no idle-activation, whatever
\* the registrations and the selected screen are.
C3_OverridePrecedence ==
    override_idle # None =>
        /\ last.op \in ShowOps => emitted = <<override_idle[1]>>
        /\ last.op = "collect" => Tail(emitted) = <<override_idle[1]>>
        /\ last.op \in ShowOps \cup {"collect"} =>
               \A i \in 1..Len(emitted) : ~IsIdleActivation(emitted[i])

\* The idle timer fires while an override is active and the selected screen
\* is registered: the override's message is what is emitted.
C3_Witness ==
    /\ last.op = "IdleCheck"
    /\ override_idle # None
    /\ selected \in DOMAIN screens
    /\ emitted = <<override_idle[1]>>

\* C4: restore() called when now - setAt <= 2s leaves the override intact and
\* emits nothing; called when now - setAt > 2s it clears the override and
\* invokes show(), which emits the idle-activation of the selected registered
\* screen instead of the override message.
C4_GracePeriodRelease ==
    [][ (last'.op = "restore" /\ override_idle # None) =>
            IF now - override_idle[2] <= Sec(2)
            THEN override_idle' = override_idle /\ emitted' = <<>>
            ELSE /\ override_idle' = None
                 /\ emitted' = SelectedIdle(screens, selected)
                 /\ \A i \in 1..Len(emitted') :
                        emitted'[i] # override_idle[1] ]_vars

\* restore() has released an override and the idle screen was activated.
C4_Witness ==
    /\ last.op = "restore"
    /\ override_idle = None
    /\ emitted = <<IdleActivation("weather-skill")>>

\* C5: with no override active, show() emits "{id}.idle" for the id registered
\* under the selected name ("Weather" -> "weather-skill" selected emits
\* "weather-skill.idle"); with the selected name unregistered, or with no
\* registrations, it emits nothing.
C5_ShowSelected ==
    (last.op \in ShowOps /\ override_idle = None) =>
        /\ emitted = SelectedIdle(screens, selected)
        /\ (selected = "Weather" /\ "Weather" \in DOMAIN screens
              /\ screens["Weather"] = "weather-skill")
             => emitted = <<Message("weather-skill.idle", NoData)>>
        /\ selected \notin DOMAIN screens => emitted = <<>>

\* "Weather" is registered by "weather-skill" beside another screen, it is
\* selected, and show() has activated it.
C5_Witness ==
    /\ last.op = "show"
    /\ override_idle = None
    /\ selected = "Weather"
    /\ DOMAIN screens = ScreenNames
    /\ screens["Weather"] = "weather-skill"
    /\ screens["OVOSHomescreen"] = "homescreen-skill"
    /\ emitted = <<Message("weather-skill.idle", NoData)>>

\* C9 as stated: on stop, if no override is active or the active override is
\* older than 7s, show() is invoked with no override active; otherwise the
\* override is left in place and nothing is emitted.
C9_StopRestoresIdle ==
    [][ last'.op = "stop" =>
            IF override_idle = None \/ now - override_idle[2] > Sec(7)
            THEN /\ override_idle' = None
                 /\ emitted' = SelectedIdle(screens, selected)
            ELSE override_idle' = override_idle /\ emitted' = <<>> ]_vars

\* C9 amended: on stop, if an override is active and more than 7s have passed
\* since the last call of override() (override_set_time), the override is
\* cleared and show() is invoked with no override active; otherwise (no
\* override, or within those 7s) the override is left as it is and nothing is
\* emitted.
C9_StopGrace ==
    [][ last'.op = "stop" =>
            IF override_idle # None /\ now > override_set_time + Sec(7)
            THEN /\ override_idle' = None
                 /\ emitted' = SelectedIdle(screens, selected)
            ELSE override_idle' = override_idle /\ emitted' = <<>> ]_vars

\* stop has released an override and the idle screen was activated.
C9_Witness ==
    /\ last.op = "stop"
    /\ override_idle = None
    /\ emitted = <<IdleActivation("weather-skill")>>

\* C10: the force-homescreen event clears the override unconditionally,
\* whatever its age, and invokes show(): what is emitted is the
\* idle-activation of the selected registered screen, never the former
\* override message.
C10_ForceStop ==
    [][ last'.op = "force_stop" =>
            /\ override_idle' = None
            /\ emitted' = SelectedIdle(screens, selected)
            /\ override_idle # None =>
                   \A i \in 1..Len(emitted') :
                       emitted'[i] # override_idle[1] ]_vars

\* force_stop in the very tick in which a page installed its override.
C10_Witness ==
    /\ last.op = "force_stop"
    /\ override_set_time = now
    /\ now > 0
    /\ next = 0
    /\ has_show_page
    /\ override_idle = None
    /\ emitted = <<IdleActivation("weather-skill")>>

---------------------------------------------------------------------------
(* Properties of the page-show handler (SpecPage) *)

\* The handler that ran last is on_gui_page_show for an event of a skill
\* other than the controller
PageShownBySkill(l) ==
    /\ l.op = "on_gui_page_show"
    /\ l.arg.data.from \in OtherSkills

IntDirective(l) ==
    /\ PageShownBySkill(l)
    /\ l.arg.data.idle \in {PyInt(n) : n \in IdleInts}

DirectiveSeconds(l) == l.arg.data.idle[2]

\* C6 as stated: when a page-show event with an integer idle directive
\* __idle = N arrives from a skill other than the controller, in any prior
\* state, the idle timer is armed afterwards with deadline now + N (now read
\* on arrival or when the timer is armed).
C6_TimerArmedForN ==
    [][ IntDirective(last') =>
            \/ IdleTimers' =
                 <<Event("IdleCheck", now + Sec(DirectiveSeconds(last')))>>
            \/ IdleTimers' =
                 <<Event("IdleCheck", now' + Sec(DirectiveSeconds(last')))>>
      ]_vars

\* C6 amended: when such an event arrives while now + N >= next, the idle
\* timer is armed afterwards with deadline N seconds after the moment it is
\* armed and the floor next is arrival time + N; when it arrives while
\* now + N < next the request is dropped: timer and floor stay as they were.
C6_TimerArmedUnlessDebounced ==
    [][ IntDirective(last') =>
            IF now + Sec(DirectiveSeconds(last')) >= next
            THEN /\ IdleTimers' =
                      <<Event("IdleCheck",
                              now' + Sec(DirectiveSeconds(last')))>>
                 /\ next' = now + Sec(DirectiveSeconds(last'))
                 /\ now' = now + SleepTicks
            ELSE events' = events /\ next' = next /\ now' = now ]_vars

\* __idle = 15 has re-armed the timer while an override was active.
C6_Witness ==
    /\ IntDirective(last)
    /\ DirectiveSeconds(last) = 15
    /\ override_idle # None
    /\ IdleTimers = <<Event("IdleCheck", now + Sec(15))>>
    /\ next = (now - SleepTicks) + Sec(15)

\* C7 as stated: after a page-show event with an integer idle directive has
\* been handled no override is active: an override that was active before
\* has been cleared and none is installed.
C7_NoOverrideAfterInt ==
    [][ IntDirective(last') => override_idle' = None ]_vars

\* C7 amended: a page-show event with an integer idle directive installs no
\* override and clears none: override_idle is exactly what it was before the
\* event (an active override stays active), and override_set_time becomes
\* the time of the event.
C7_OverrideUntouchedByInt ==
    [][ IntDirective(last') =>
            /\ override_idle' = override_idle
            /\ override_set_time' = now ]_vars

\* An integer directive was handled after the override of another page was
\* installed: that override is still active.
C7_Witness ==
    /\ IntDirective(last)
    /\ override_idle # None
    /\ override_idle[2] < override_set_time
    /\ override_idle[1].data.idle = PyTrue

\* C8: after a page-show event with __idle = true from a skill other than
\* the controller has been handled, an override holding that event's message
\* is active, no IdleCheck timer is armed and the floor next is 0.
C8_OverrideInstalled ==
    (PageShownBySkill(last) /\ last.arg.data.idle = PyTrue) =>
        /\ override_idle = <<last.arg, now>>
        /\ override_set_time = now
        /\ Len(IdleTimers) = 0
        /\ next = 0

\* __idle = true handled after time has passed since construction: the
\* override is the event's message, the timer and the floor are gone.
C8_Witness ==
    /\ PageShownBySkill(last)
    /\ last.arg.data.idle = PyTrue
    /\ now > MaxTime - PageHorizon
    /\ override_idle = <<last.arg, now>>
    /\ events = <<>>
    /\ next = 0

---------------------------------------------------------------------------
(* Further properties of the resting screen (SpecScreen) *)

\* events with its i-th element removed
Without(evs, i) == SubSeq(evs, 1, i - 1) \o SubSeq(evs, i + 1, Len(evs))

\* C11: show() only reads the arbiter state: any invocation leaves the
\* override, override_set_time, the registrations, the selected name, the
\* floor next and the armed timer as they were (when show() is the callback
\* of the idle timer, the one elapsed timer that fired is what is gone), and
\* two consecutive invocations emit the same message.
C11_ShowReadOnly ==
    [][ /\ last'.op \in ShowOps =>
               UNCHANGED <<override_idle, override_set_time, screens,
                           selected, next>>
        /\ last'.op = "show" => events' = events
        /\ last'.op = "IdleCheck" =>
               \E i \in 1..Len(events) :
                   /\ events[i] \in {Event("IdleCheck", t) : t \in 0..now}
                   /\ events' = Without(events, i)
        /\ (last.op \in ShowOps /\ last'.op \in ShowOps) =>
               emitted' = emitted ]_vars

\* show() has run while an override is active and the idle timer is armed
\* above a floor in the future: all of them are still there.
C11_Witness ==
    /\ last.op = "show"
    /\ override_idle # None
    /\ emitted = <<override_idle[1]>>
    /\ next > now
    /\ Len(IdleTimers) = 1
    /\ DOMAIN screens = ScreenNames

\* C12: a registration event that lacks "name" or "id" leaves the
\* registrations unchanged; a well-formed one makes its name map to its id,
\* replacing an id registered earlier under that name, and leaves every
\* other name as it was.
C12_Registration ==
    [][ last'.op = "on_register" =>
            IF "name" \in DOMAIN last'.arg /\ "id" \in DOMAIN last'.arg
            THEN /\ DOMAIN screens' = DOMAIN screens \cup {last'.arg.name}
                 /\ screens'[last'.arg.name] = last'.arg.id
                 /\ \A n \in DOMAIN screens \ {last'.arg.name} :
                        screens'[n] = screens[n]
            ELSE screens' = screens ]_vars

\* "Weather" has been registered by "homescreen-skill" beside
\* "OVOSHomescreen", registered by "weather-skill".
C12_Witness ==
    /\ last.op = "on_register"
    /\ last.arg = [name |-> "Weather", id |-> "homescreen-skill"]
    /\ DOMAIN screens = ScreenNames
    /\ screens["Weather"] = "homescreen-skill"
    /\ screens["OVOSHomescreen"] = "weather-skill"

---------------------------------------------------------------------------
(* Properties of the screen brightness (SpecBrightness, SpecLevels) *)

\* C13: every level passed to set_screen_brightness, by a scheduled event,
\* by the start of auto brightness or by a request of the user that
\* _set_brightness accepts (a named level, "NN%", "NN percent" or a bare
\* integer), lies in 0..30.
C13_LevelInRange ==
    \A i \in 1..Len(applied) : applied[i] \in 0..FullLevel

\* The handler that ran last is _set_brightness for "p%" or "p percent"
\* with p in 0..100
PercentRequested(l) ==
    /\ l.op = "_set_brightness"
    /\ l.arg.kind \in {"%", "percent"}
    /\ l.arg.n \in 0..FullPercent

AutoStarted(l) ==
    \/ l.op = "handle_auto_brightness"
    \/ l.op = "_set_brightness" /\ parse_brightness(l.arg) = PyInt(0 - 1)

\* Where the claim has schedule_brightness arm the time of day computed
\* as sun by a call made at time t
ArmedAt(t, sun) ==
    IF Timestamp(sun) < Timestamp(t) THEN sun + Hours(24) ELSE sun

\* C15: when schedule_brightness is called with a computed time that is
\* already in the past (its timestamp, in whole seconds, is before that of
\* the current moment), the event is armed 24 hours after the computed time;
\* otherwise it is armed at the computed time unchanged. Checked for its
\* calls by a firing while auto brightness is on and by the start of auto
\* brightness.
C15_PastTimeShifted ==
    [][ /\ (last'.op = "_handle_screen_brightness_event"
             /\ auto_brightness = PyTrue) =>
               LET e == events'[Len(events')]
                   sun == get_auto_time(now, last'.arg)
               IN  /\ e.name = last'.arg
                   /\ e.data = <<last'.arg, sun[2]>>
                   /\ e.when = ArmedAt(now, sun[1])
        /\ AutoStarted(last') =>
               /\ Len(events') = Len(events) + Len(Labels)
               /\ \A k \in 1..Len(Labels) :
                      LET e == events'[Len(events) + k]
                          sun == get_auto_time(now, Labels[k])
                      IN  /\ e.name = Labels[k]
                          /\ e.data = <<Labels[k], sun[2]>>
                          /\ e.when = ArmedAt(now, sun[1]) ]_vars

\* The Noon event fired three hours late, at 15:00 of the first day, and
\* was armed again for noon of the second day, while Sunset is still armed
\* for 18:00 of the first day.
C15_Witness ==
    /\ last = [op |-> "_handle_screen_brightness_event", arg |-> "Noon"]
    /\ auto_brightness = PyTrue
    /\ now = Hours(15)
    /\ Pending("Noon") = <<BrightnessEvent("Noon", Hours(36), <<"Noon", 30>>)>>
    /\ Pending("Sunset") =
           <<BrightnessEvent("Sunset", Hours(18), <<"Sunset", 5>>)>>

\* Each time of day has exactly one scheduled callback
OneEventPerLabel ==
    \A k \in 1..Len(Labels) : Len(Pending(Labels[k])) = 1

\* C16: once auto brightness has been started, in every reachable state
\* there is exactly one scheduled callback for each of the labels "Sunrise",
\* "Noon" and "Sunset", across firings, repeated activations of auto
\* brightness and manual overrides: every start of auto brightness leaves
\* one callback per label, and no handler changes that afterwards.
C16_OneEventPerLabel ==
    [][ (AutoStarted(last') \/ OneEventPerLabel) => OneEventPerLabel' ]_vars

\* The event of time_of_day as schedule_brightness arms it at time t
Rearmed(time_of_day, t) ==
    LET sun == get_auto_time(t, time_of_day)
    IN  BrightnessEvent(time_of_day, ArmedAt(t, sun[1]),
                        <<time_of_day, sun[2]>>)

C18_BareInteger ==
    (last.op = "_set_brightness" /\ last.arg.kind = "int") =>
        IF last.arg.n \in 30..100
        THEN applied = <<percent_to_level(last.arg.n)>>
        ELSE IF last.arg.n \in 0..29
        THEN applied = <<last.arg.n>>
        ELSE /\ applied = <<>>
             /\ spoken = <<Dialog("brightness.not.found.final")>>

---------------------------------------------------------------------------
(* Properties of the concurrent operations (SpecThreads) *)

\* Thread t is inside the body of one of the operations (a thread waiting
\* for the lock of start_idle_event is not)
InBody(t) == pc[t].op # "idle" /\ ~At(t, "start_idle_event", 479)

\* C19: every operation that mutates or reads the shared state of the
\* arbiter (show, start_idle_event, cancel_idle_event, override, restore)
\* executes while holding the one lock of RestingScreen: no two of these
\* operations, called from concurrent handlers and timer callbacks, are
\* inside their bodies at the same time.
C19_OperationsUnderLock ==
    /\ \A t \in Threads : InBody(t) => lock = <<t>>
    /\ \A t, u \in Threads : (InBody(t) /\ InBody(u)) => t = u

---------------------------------------------------------------------------
(* Properties of the activations (SpecActivation) *)

\* C20: has_show_page is reset to false at the start of each new
\* activation: after a page-show event of a skill has set it to true, the
\* start of the next handler of a skill (one that on_handler_started does
\* not ignore) sets it back to false, so that a later speaking event sees
\* it false.
C20_FlagResetOnActivation ==
    [][ (last'.op = "on_handler_started" /\ ~IsIgnoredHandler(last'.arg)) =>
            ~has_show_page' ]_vars

---------------------------------------------------------------------------
(* Further properties of the page-show handler (SpecPage) *)

\* The handler that ran last is on_gui_page_show for an event of a skill
\* other than the controller that shows a page other than the idle page
\* with the given idle directives
PlainPageShown(l, directives) ==
    /\ PageShownBySkill(l)
    /\ l.arg.data.idle \in directives
    /\ ~EndsWithIdleQml(l.arg.data.page[1])

\* C22 as stated: a page-show event for a non-idle page whose __idle
\* directive is absent or false cancels the active override if and only if
\* the origin of the event equals the origin of the override's message, and
\* in either case the default 30 s idle timer is armed afterwards; an event
\* of a different origin never clears the override.
C22_CancelIffSameOrigin ==
    [][ PlainPageShown(last', {Absent, PyFalse}) =>
            /\ override_idle' =
                  IF /\ override_idle # None
                     /\ last'.arg.data.from = override_idle[1].data.from
                  THEN None ELSE override_idle
            /\ IdleTimers' = <<Event("IdleCheck", now' + Sec(30))>> ]_vars

\* C22 amended: such an event cancels the active override if and only if
\* its __idle directive is false (not merely absent) and its origin equals
\* the origin of the override's message; an event of a different origin, or
\* one without the directive, never clears the override. In either case the
\* default 30 s request is then made: when now + 30 s >= next the timer is
\* armed for 30 s after the moment it is armed and next = arrival + 30 s,
\* otherwise the request is dropped and timer and next stay as they were.
C22_CancelIfFalseAndSameOrigin ==
    [][ PlainPageShown(last', {Absent, PyFalse}) =>
            /\ override_idle' =
                  IF /\ override_idle # None
                     /\ last'.arg.data.idle = PyFalse
                     /\ last'.arg.data.from = override_idle[1].data.from
                  THEN None ELSE override_idle
            /\ override_set_time' = override_set_time
            /\ IF now + Sec(30) >= next
               THEN /\ IdleTimers' = <<Event("IdleCheck", now' + Sec(30))>>
                    /\ next' = now + Sec(30)
                    /\ now' = now + SleepTicks
               ELSE events' = events /\ next' = next /\ now' = now ]_vars

\* "skill-timer" has shown a page with __idle false while the override of
\* "skill-weather" is active: the override is still there and the 30 s
\* timer is armed.
C22_Witness ==
    /\ PlainPageShown(last, {PyFalse})
    /\ last.arg.data.from = "skill-timer"
    /\ override_idle # None
    /\ override_idle[1].data.from = "skill-weather"
    /\ IdleTimers = <<Event("IdleCheck", now + Sec(30))>>
    /\ next = (now - SleepTicks) + Sec(30)

---------------------------------------------------------------------------
(* Further properties of the idle timer (SpecTimer) *)

\* C24: a weak start_idle_event(offset, weak=true) that passes the debounce
\* check arms the IdleCheck timer for offset seconds after the moment it is
\* armed but leaves the floor next unchanged, so that a later non-weak
\* request with a shorter offset that the floor as it was allows is still
\* accepted; an accepted non-weak request sets next = now + offset.
C24_WeakLeavesFloor ==
    [][ /\ (last'.op = "start_idle_event" /\ now + last'.arg.offset >= next)
           => /\ IdleTimers' =
                    <<Event("IdleCheck", now' + last'.arg.offset)>>
              /\ now' = now + SleepTicks
              /\ next' = IF last'.arg.weak THEN next
                         ELSE now + last'.arg.offset
        /\ ( /\ last.op = "start_idle_event"
             /\ last.arg.weak
             /\ last.arg.offset = Sec(60)
             /\ IdleTimers = <<Event("IdleCheck", now + Sec(60))>>
             /\ next <= now
             /\ last'.op = "start_idle_event"
             /\ ~last'.arg.weak
             /\ last'.arg.offset = Sec(5) )
           => /\ IdleTimers' = <<Event("IdleCheck", now' + Sec(5))>>
              /\ next' = now + Sec(5) ]_vars

\* A weak start_idle_event(60) was accepted at the start: the timer is armed
\* for 60 s and the floor is still 0.
C24_Witness ==
    /\ last.op = "start_idle_event"
    /\ last.arg = [offset |-> Sec(60), weak |-> TRUE]
    /\ IdleTimers = <<Event("IdleCheck", now + Sec(60))>>
    /\ next = 0

\* C25: an armed IdleCheck timer that is neither cancelled nor replaced
\* eventually fires (the clock runs and the scheduler keeps looking for
\* elapsed events; timers due within the time horizon), invoking show()
\* once, after which no IdleCheck timer is armed until a new
\* start_idle_event arms one: one armed timer never fires twice.
C25_TimerFiresOnce ==
    /\ \A w \in 0..MaxTime :
           (IdleTimers = <<Event("IdleCheck", w)>>)
               ~> (last.op = "IdleCheck"
                     \/ IdleTimers # <<Event("IdleCheck", w)>>)
    /\ [][ /\ last'.op = "IdleCheck" =>
                 /\ Len(IdleTimers) = 1
                 /\ IdleTimers[1].when <= now
                 /\ IdleTimers' = <<>>
                 /\ emitted' = show(override_idle, screens, selected)
           /\ (IdleTimers = <<>> /\ IdleTimers' # <<>>) =>
                 last'.op \in {"start_idle_event", "on_gui_page_interaction"}
         ]_vars

\* The timer of a non-weak request has fired: none is armed, and the floor
\* of the request is in the past.
C25_Witness ==
    /\ last.op = "IdleCheck"
    /\ IdleTimers = <<>>
    /\ next > 0
    /\ next < now

\* C27: in every state between two handlers, if the floor next is still in
\* the future (next > now) then an IdleCheck timer is armed, so that no
\* request is dropped by the debounce rule while no timer is pending.
C27_FloorAheadImpliesArmed ==
    next > now => Len(IdleTimers) >= 1

\* C28: once a cancel_idle_event and the non-weak start_idle_event it ran
\* along with have both finished, the state is that of one of the two
\* sequential orders: either no IdleCheck timer is armed and next = 0, or
\* one timer is armed and next is the floor of a request; a timer armed
\* with next = 0 is unreachable.
C28_CancelStartSerializable ==
    (\A t \in Threads : pc[t].op = "idle") =>
        \/ IdleTimers = <<>> /\ next = 0
        \/ Len(IdleTimers) = 1 /\ next > 0

C26_NoFaultEscapes ==
    "raised" \notin DOMAIN last

====
